---- MODULE Spec2Model ----
(***************************************************************************)
(* A model of cherrypicker's traversable nodes: the predicate evaluator    *)
(* (_filter_item), the mapping node (filter, __getitem__, _flatten) and    *)
(* the iterable node with its chunked, parallel filter / flatten /         *)
(* broadcast extraction (src/cherrypicker/traversable.py).                 *)
(*                                                                         *)
(* Python values are tagged records [t, v].  The v of a Python str is the  *)
(* sequence of its characters, so that prefix[:-1], `attr in "..."` and    *)
(* "{}{}{}".format(prefix, key, delim) can be computed.  An exception is a *)
(* result [err |-> <exception name>, ...].                                 *)
(***************************************************************************)
EXTENDS Integers, Sequences, FiniteSets, TLC

VARIABLES pc, node, call, chunks, finished, outcome, evals

vars == <<pc, node, call, chunks, finished, outcome, evals>>

(***************************************************************************)
(* Bounds of the model.                                                    *)
(***************************************************************************)
MaxLen == 3      \* longest wrapped sequence of an iterable node
MaxJobs == 2     \* largest positive n_jobs
MaxPreds == 2    \* most field predicates in one filter call
MaxKeys == 2     \* most keys in one tuple of keys
CpuCount == 3    \* processors of the machine (a negative n_jobs counts from it)

(***************************************************************************)
(* Python values.                                                          *)
(***************************************************************************)
None == [t |-> "none", v |-> "None"]
PyStr(s) == [t |-> "str", v |-> s]
PyInt(i) == [t |-> "int", v |-> i]
PyDict(pairs) == [t |-> "dict", v |-> pairs]
PyList(items) == [t |-> "list", v |-> items]
PyBool(b) == [t |-> "bool", v |-> b]
PyTuple(items) == [t |-> "tuple", v |-> items]
\* slice(start, stop, None) with 0 <= start and 0 <= stop
PySlice(start, stop) == [t |-> "slice", v |-> <<start, stop>>]
\* A type, as an entry of leaf_types
PyType(name) == [t |-> "type", v |-> name]

\* A dictionary is the sequence of its items [k, val] in insertion order.
Item(k, val) == [k |-> k, val |-> val]
DictKeys(d) == [i \in 1..Len(d.v) |-> d.v[i].k]
DictHas(d, k) == \E i \in 1..Len(d.v) : d.v[i].k = k
DictGet(d, k) == d.v[CHOOSE i \in 1..Len(d.v) : d.v[i].k = k].val
DictSet(d, k, val) ==
    IF DictHas(d, k)
    THEN PyDict([i \in 1..Len(d.v) |-> IF d.v[i].k = k THEN Item(k, val) ELSE d.v[i]])
    ELSE PyDict(Append(d.v, Item(k, val)))

\* The outcome of a piece of code: a returned value, or a raised exception.
NoErr == "none"
Ret(x) == [err |-> NoErr, res |-> x]
Raise(e) == [err |-> e, res |-> None]
Raised(r) == r.err # NoErr

(***************************************************************************)
(* Classification of a value.                                              *)
(***************************************************************************)
\* A classification that does not know the mapping interface.
GetCherryClassNoMapping(obj) == IF obj.t = "list" THEN "iterable" ELSE "leaf"

GetCherryClass(obj) ==
    IF obj.t = "dict" THEN "mapping"
    ELSE IF obj.t = "list" THEN "iterable"
    ELSE "leaf"

(***************************************************************************)
(* The predicate evaluator, CherryPickerTraversable._filter_item.          *)
(***************************************************************************)
PRED_RULES == {"all", "any"}

\* Predicates: a function, a compiled pattern, a string, or any other value.
Fn(name) == [t |-> "fn", v |-> name]
Pat(p) == [t |-> "pattern", v |-> p]

\* `a in s` for two strings
IsSubstring(a, s) ==
    \E i \in 0..(Len(s) - Len(a)) : SubSeq(s, i + 1, i + Len(a)) = a

\* `attr in obj`
Contains(obj, attr) ==
    CASE obj.t = "dict" -> Ret(DictHas(obj, attr))
      [] obj.t = "str" -> Ret(IsSubstring(attr.v, obj.v))
      [] obj.t = "list" -> Ret(\E i \in 1..Len(obj.v) : obj.v[i] = attr)
      [] OTHER -> Raise("TypeError")

\* `obj[attr]` for a field name attr that `attr in obj` found
Subscript(obj, attr) ==
    IF obj.t = "dict" THEN Ret(DictGet(obj, attr)) ELSE Raise("TypeError")

\* str.lower(), over the letters the model uses
Lower(s) == [i \in 1..Len(s) |-> IF s[i] = "X" THEN "x" ELSE s[i]]

\* re.compile(p) fails: the pattern "*" has nothing to repeat
Malformed(p) == p = <<"*">>

\* re.fullmatch(p, s, flags) for a well-formed pattern (the model's are literals)
ReFullmatch(p, s, ignorecase) == IF ignorecase THEN Lower(p) = Lower(s) ELSE p = s

\* fnmatch.fnmatchcase(s, p): "*" matches every string, a literal only itself
Fnmatchcase(s, p) == p = <<"*">> \/ p = s

\* pred(val) for the functions of the model
CallPred(name, val) ==
    CASE name = "isx" -> Ret(val = PyStr(<<"x">>))
      [] name = "err" -> Raise("ValueError")
      [] name = "re_err" -> Raise("re.error")

\* The string branch of the comparison.
CompareStr(p, val, c) ==
    IF ~c.case_sensitive /\ val.t # "str" THEN Raise("AttributeError")
    ELSE LET pl == IF c.case_sensitive THEN p ELSE Lower(p)
             vl == IF c.case_sensitive THEN val ELSE PyStr(Lower(val.v))
         IN  IF c.regex
             THEN IF Malformed(pl) THEN Raise("re.error")
                  ELSE IF vl.t # "str" THEN Raise("TypeError")
                  ELSE Ret(ReFullmatch(pl, vl.v, ~c.case_sensitive))
             ELSE IF c.allow_wildcards
             THEN IF vl.t # "str" THEN Raise("TypeError")
                  ELSE Ret(Fnmatchcase(vl.v, pl))
             ELSE Ret(PyStr(pl) = vl)

\* The body of the try block: the comparison of a present value with pred.
Compare(pred, val, c) ==
    CASE pred.t = "fn" -> CallPred(pred.v, val)
      [] pred.t = "pattern" ->
            IF val.t # "str" THEN Raise("TypeError") ELSE Ret(pred.v = val.v)
      [] pred.t = "str" -> CompareStr(pred.v, val, c)
      [] OTHER -> Ret(pred = val)

\* The except clauses without the clause that re-raises re.error.
HandledPatternErrorToo(r, opts) ==
    IF ~Raised(r) THEN r
    ELSE IF opts.on_error = "raise" THEN r
    ELSE Ret(FALSE)

\* The except clauses re-raising whatever on_error says.
HandledAlwaysRaised(r, opts) == r

\* The except clauses around the comparison.
Handled(r, opts) ==
    IF ~Raised(r) THEN r
    ELSE IF r.err = "re.error" THEN r
    ELSE IF opts.on_error = "raise" THEN r
    ELSE Ret(FALSE)

\* The field is not in obj, and on_missing is not looked at.
MissingAlwaysIgnored(opts) == Ret(FALSE)

\* The field is not in obj.
Missing(opts) ==
    IF opts.on_missing = "raise" THEN Raise("AttributeError") ELSE Ret(FALSE)

\* One turn of the loop over predicates.items(): the result `res` of a field.
FieldResult(obj, attr, pred, c, opts) ==
    LET has == Contains(obj, attr) IN
    IF Raised(has) THEN has
    ELSE IF ~has.res THEN Missing(opts)
    ELSE LET val == Subscript(obj, attr) IN
         IF Raised(val) THEN val ELSE Handled(Compare(pred, val.res, c), opts)

\* The two rules taken for each other at the end of the loop.
ExhaustedSwapped(how) == how = "any"

\* What _filter_item returns once every predicate has been through the loop.
Exhausted(how) == how = "all"

\* A loop that never returns before its end.
DecisiveNever(res, how) == FALSE

\* `res and how == "any"` / `not res and how == "all"`: the loop returns res
Decisive(res, how) == (res /\ how = "any") \/ (~res /\ how = "all")

RECURSIVE FilterItemFrom(_, _, _, _)
FilterItemFrom(obj, c, opts, i) ==
    IF i > Len(c.preds) THEN Ret(Exhausted(c.how))
    ELSE LET r == FieldResult(obj, c.preds[i].attr, c.preds[i].pred, c, opts) IN
         IF Raised(r) THEN r
         ELSE IF Decisive(r.res, c.how) THEN Ret(r.res)
         ELSE FilterItemFrom(obj, c, opts, i + 1)

FilterItem(obj, c, opts) == FilterItemFrom(obj, c, opts, 1)

(***************************************************************************)
(* The leaf-type override of the classification.                           *)
(***************************************************************************)
\* leaf_types when the caller gives none
DefaultLeafTypes == PyTuple(<<PyType("str"), PyType("bytes")>>)

\* leaf_types as given (None, one type, one function or a collection of them)
\* parsed into the sequence of its entries; an entry that is neither a type
\* nor a function is refused.
ParseLeafTypes(leaf_types) ==
    LET entries == IF leaf_types = None THEN <<>>
                   ELSE IF leaf_types.t = "tuple" THEN leaf_types.v
                   ELSE <<leaf_types>>
    IN  IF \A i \in 1..Len(entries) : entries[i].t \in {"type", "fn"}
        THEN Ret(entries)
        ELSE Raise("ValueError")

\* f(obj) for the leaf functions of the model
CallLeafFn(name, obj) ==
    CASE name = "has_a" -> Contains(obj, PyStr(<<"a">>))
      [] name = "argh" -> Raise("Exception")

\* obj is a leaf whatever its interfaces are: its exact type is among the
\* types, or a function returns true for it (a function that raises is passed
\* over).
LeafOverride(obj, leaf_types) ==
    LET entries == ParseLeafTypes(leaf_types).res IN
    \/ \E i \in 1..Len(entries) : entries[i] = PyType(obj.t)
    \/ \E i \in 1..Len(entries) :
          /\ entries[i].t = "fn"
          /\ CallLeafFn(entries[i].v, obj) = Ret(TRUE)

\* _get_cherry_class(obj, parent): the class of a node with these options
Classify(obj, opts) ==
    IF LeafOverride(obj, opts.leaf_types) THEN "leaf"
    ELSE IF obj.t = "str" THEN "iterable"
    ELSE GetCherryClass(obj)

(***************************************************************************)
(* Nodes.  A node wraps obj, carries the options and points at its parent. *)
(***************************************************************************)
NoNode == [none |-> TRUE]

\* CherryPicker.__init__: n_jobs = 0 is refused
ValidNJobs(n_jobs) == n_jobs # PyInt(0)

\* The options of the class itself, used for a child made without a parent.
ClassOpts ==
    [on_missing |-> "ignore", on_error |-> "ignore", on_leaf |-> "raise",
     leaf_types |-> DefaultLeafTypes, default |-> None, n_jobs |-> None]

\* _effective_n_jobs
EffectiveNJobs(opts) ==
    IF opts.n_jobs = None THEN 1
    ELSE IF opts.n_jobs.v < 0 THEN CpuCount + 1 + opts.n_jobs.v
    ELSE opts.n_jobs.v

MakeNode(obj, opts, parent) ==
    [obj |-> obj, opts |-> opts, parent |-> parent, child_parents |-> <<>>]

\* _make_child(obj, parent)
MakeChild(obj, parent) ==
    MakeNode(obj, IF parent = NoNode THEN ClassOpts ELSE parent.opts, parent)

\* The node a successful result is wrapped in.
Wrap(r, parent) == IF Raised(r) THEN r ELSE Ret(MakeChild(r.res, parent))

\* A parent property that finds no parent on any node.
ParentNeverSet(n) == Raise("AttributeError")

\* The parent property
Parent(n) == IF n.parent # NoNode THEN Ret(n.parent) ELSE Raise("AttributeError")

\* The number of nodes above n
RECURSIVE Depth(_)
Depth(n) == IF n.parent = NoNode THEN 0 ELSE 1 + Depth(n.parent)

(***************************************************************************)
(* The mapping node.                                                       *)
(***************************************************************************)
\* A _filter that returns an empty map for a map that does not match.
MappingFilterEmptyOnMiss(n, c) ==
    LET r == FilterItem(n.obj, c, n.opts) IN
    IF Raised(r) THEN r
    ELSE IF r.res THEN Ret(n.obj) ELSE Ret(PyDict(<<>>))

\* CherryPickerMapping._filter
MappingFilter(n, c) ==
    LET r == FilterItem(n.obj, c, n.opts) IN
    IF Raised(r) THEN r
    ELSE IF r.res THEN Ret(n.obj) ELSE Ret(n.opts.default)

\* dict.__getitem__
DictGetItem(obj, key) ==
    IF DictHas(obj, key) THEN Ret(DictGet(obj, key)) ELSE Raise("KeyError")

\* An item lookup that knows no default but None.
MappingItemWithoutDefault(n, key) ==
    IF n.opts.on_missing = "ignore"
    THEN IF DictHas(n.obj, key) THEN Ret(DictGet(n.obj, key)) ELSE Ret(None)
    ELSE DictGetItem(n.obj, key)

\* The items of CherryPickerMapping.__getitem__ for one key.
MappingItem(n, key) ==
    IF n.opts.on_missing = "ignore"
    THEN IF DictHas(n.obj, key) THEN Ret(DictGet(n.obj, key)) ELSE Ret(n.opts.default)
    ELSE DictGetItem(n.obj, key)

RECURSIVE MappingItemsFrom(_, _, _)
MappingItemsFrom(n, keys, i) ==
    IF i > Len(keys) THEN Ret(<<>>)
    ELSE LET r == MappingItem(n, keys[i]) IN
         IF Raised(r) THEN r
         ELSE LET rest == MappingItemsFrom(n, keys, i + 1) IN
              IF Raised(rest) THEN rest ELSE Ret(<<r.res>> \o rest.res)

\* CherryPickerMapping.__getitem__: the value the child wraps
MappingGetItem(n, args) ==
    IF args.t = "tuple"
    THEN LET r == MappingItemsFrom(n, args.v, 1) IN
         IF Raised(r) THEN r ELSE Ret(PyList(r.res))
    ELSE MappingItem(n, args)

\* "{}".format(key)
Format(key) == IF key.t = "str" THEN key.v ELSE <<ToString(key.v)>>

\* prefix[:-1]
ButLast(prefix) == SubSeq(prefix, 1, Len(prefix) - 1)

DefaultDelim == <<"_">>
DefaultMaxDepth == 100

\* A depth test that stops the descent one level earlier.
DepthExceededAtLimit(maxdepth, depth) == maxdepth # None /\ depth >= maxdepth.v

\* `maxdepth is not None and depth > maxdepth`
DepthExceeded(maxdepth, depth) == maxdepth # None /\ depth > maxdepth.v

\* CherryPickerMapping._flatten(obj, flat, prefix, delim, maxdepth, depth); the
\* recursive calls do not pass delim on, so they run with the default.
RECURSIVE MappingFlattenRec(_, _, _, _, _, _)
RECURSIVE MappingFlattenEach(_, _, _, _, _, _, _)
MappingFlattenRec(obj, flat, prefix, delim, maxdepth, depth) ==
    IF DepthExceeded(maxdepth, depth)
    THEN DictSet(flat, PyStr(ButLast(prefix)), obj)
    ELSE IF GetCherryClass(obj) \in {"mapping", "iterable"}
    THEN MappingFlattenEach(obj, flat, prefix, delim, maxdepth, depth, 1)
    ELSE DictSet(flat, PyStr(ButLast(prefix)), obj)

MappingFlattenEach(obj, flat, prefix, delim, maxdepth, depth, i) ==
    IF i > Len(obj.v) THEN flat
    ELSE LET key == IF obj.t = "dict" THEN obj.v[i].k ELSE PyInt(i - 1)
             val == IF obj.t = "dict" THEN obj.v[i].val ELSE obj.v[i]
             sub == MappingFlattenRec(val, flat, prefix \o Format(key) \o delim,
                                      DefaultDelim, maxdepth, depth + 1)
         IN  MappingFlattenEach(obj, sub, prefix, delim, maxdepth, depth, i + 1)

MappingFlatten(obj, delim, maxdepth) ==
    MappingFlattenRec(obj, PyDict(<<>>), <<>>, delim, maxdepth, 0)

\* The flatten property of a mapping node: the child is made with the parent of
\* the node, not with the node.
MappingFlattenNode(n, delim, maxdepth) ==
    MakeChild(MappingFlatten(n.obj, delim, maxdepth), n.parent)

(***************************************************************************)
(* The iterable node.                                                      *)
(***************************************************************************)
\* CherryPickerIterable._chunks: a generator, so its `return self._obj` for an
\* empty sequence (or no worker count) ends it without a chunk.
RECURSIVE ChunksFrom(_, _, _)
ChunksFrom(items, chunksize, pos) ==
    IF pos >= Len(items) THEN <<>>
    ELSE LET last == IF pos + chunksize > Len(items) THEN Len(items) ELSE pos + chunksize
         IN  <<SubSeq(items, pos + 1, last)>> \o ChunksFrom(items, chunksize, pos + chunksize)

Chunks(n) ==
    LET n_jobs == EffectiveNJobs(n.opts)
        len_obj == Len(n.obj.v)
    IN  IF len_obj = 0 THEN <<>>
        ELSE IF n_jobs = 0 THEN <<>>
        ELSE ChunksFrom(n.obj.v, -((-len_obj) \div n_jobs), 0)

\* CherryPickerIterable._join_chunks: chain.from_iterable
RECURSIVE JoinChunks(_)
JoinChunks(cs) == IF cs = <<>> THEN <<>> ELSE Head(cs) \o JoinChunks(Tail(cs))

\* CherryPickerIterable._filter_chunk
RECURSIVE FilterChunkFrom(_, _, _, _)
FilterChunkFrom(chunk, c, opts, i) ==
    IF i > Len(chunk) THEN Ret(<<>>)
    ELSE LET r == FilterItem(chunk[i], c, opts) IN
         IF Raised(r) THEN r
         ELSE LET rest == FilterChunkFrom(chunk, c, opts, i + 1) IN
              IF Raised(rest) THEN rest
              ELSE Ret(IF r.res THEN <<chunk[i]>> \o rest.res ELSE rest.res)

FilterChunk(chunk, c, opts) == FilterChunkFrom(chunk, c, opts, 1)

\* The position of a Python index in a sequence of length len, from 1
PosOf(len, i) == IF i >= 0 THEN i + 1 ELSE len + i + 1

\* s[start:stop]
SliceOf(s, sl) ==
    SubSeq(s, sl.v[1] + 1, IF sl.v[2] > Len(s) THEN Len(s) ELSE sl.v[2])

\* list.__getitem__(key)
ListGetItem(obj, key) ==
    CASE key.t \in {"int", "bool"} ->
            LET i == IF key.t = "bool" THEN (IF key.v THEN 1 ELSE 0) ELSE key.v IN
            IF i >= Len(obj.v) \/ i < -Len(obj.v) THEN Raise("IndexError")
            ELSE Ret(obj.v[PosOf(Len(obj.v), i)])
      [] key.t = "slice" -> Ret(PyList(SliceOf(obj.v, key)))
      [] OTHER -> Raise("TypeError")

\* str.__getitem__(key)
StrGetItem(obj, key) ==
    CASE key.t = "int" ->
            IF key.v >= Len(obj.v) \/ key.v < -Len(obj.v) THEN Raise("IndexError")
            ELSE Ret(PyStr(<<obj.v[PosOf(Len(obj.v), key.v)]>>))
      [] key.t = "slice" -> Ret(PyStr(SliceOf(obj.v, key)))
      [] OTHER -> Raise("TypeError")

\* obj.__getitem__(key) on a wrapped value, as _get_child_items and the leaf
\* node call it; a value without __getitem__ has no such attribute
ChildGetItem(obj, key) ==
    CASE obj.t = "dict" -> DictGetItem(obj, key)
      [] obj.t = "list" -> ListGetItem(obj, key)
      [] obj.t = "str" -> StrGetItem(obj, key)
      [] OTHER -> Raise("AttributeError")

RECURSIVE ChildRowFrom(_, _, _)
ChildRowFrom(obj, keys, i) ==
    IF i > Len(keys) THEN Ret(<<>>)
    ELSE LET r == ChildGetItem(obj, keys[i]) IN
         IF Raised(r) THEN r
         ELSE LET rest == ChildRowFrom(obj, keys, i + 1) IN
              IF Raised(rest) THEN rest ELSE Ret(<<r.res>> \o rest.res)

\* One entry of _get_child_items: a value, or a row of values for a tuple of keys.
ChildItems(obj, keys) ==
    IF keys.t = "tuple"
    THEN LET r == ChildRowFrom(obj, keys.v, 1) IN
         IF Raised(r) THEN r ELSE Ret(PyList(r.res))
    ELSE ChildGetItem(obj, keys)

\* CherryPickerIterable._get_child_items
RECURSIVE GetChildItemsFrom(_, _, _)
GetChildItemsFrom(keys, batch, i) ==
    IF i > Len(batch) THEN Ret(<<>>)
    ELSE LET r == ChildItems(batch[i], keys) IN
         IF Raised(r) THEN r
         ELSE LET rest == GetChildItemsFrom(keys, batch, i + 1) IN
              IF Raised(rest) THEN rest ELSE Ret(<<r.res>> \o rest.res)

GetChildItems(keys, batch) == GetChildItemsFrom(keys, batch, 1)

\* CherryPickerIterable._make_child(obj, parent, child_parents)
IterableMakeChild(obj, parent, child_parents) ==
    [MakeChild(obj, parent) EXCEPT !.child_parents = child_parents]

\* `x in (True, False)`: 1 and 0 are equal to True and False
IsFlag(x) == x.t = "bool" \/ (x.t = "int" /\ x.v \in {0, 1})

\* The propagate flag of __getitem__(args): "none" when args carries no flag
Propagate(args) ==
    IF args.t = "tuple" /\ Len(args.v) > 1 /\ IsFlag(args.v[Len(args.v)])
    THEN LET flag == args.v[Len(args.v)] IN
         IF (IF flag.t = "bool" THEN flag.v ELSE flag.v # 0) THEN "true" ELSE "false"
    ELSE "none"

\* args with the flag taken off and a tuple of one argument unpacked
Unflagged(args) ==
    IF args.t # "tuple" THEN args
    ELSE LET rest == IF Propagate(args) = "none" THEN args.v
                     ELSE SubSeq(args.v, 1, Len(args.v) - 1)
         IN  IF Len(rest) = 1 THEN rest[1] ELSE PyTuple(rest)

\* The exception classes of exceptions.py derive from this class.
CherryPickerErrorBase == "object"

\* `raise cls()`: Python refuses to raise what does not derive from BaseException
RaiseInstance(cls) ==
    IF cls \in {"LeafError", "MissingNodeError"} /\ CherryPickerErrorBase = "object"
    THEN Raise("TypeError")
    ELSE Raise(cls)

\* CherryPickerLeaf.__getitem__: what it returns is the bare value, not a node
LeafGetItem(n, item) ==
    IF n.opts.on_leaf = "raise" THEN RaiseInstance("LeafError")
    ELSE ChildGetItem(n.obj, item)

\* An empty sequence that answers every index with an empty node.
EmptyGetItemAlwaysEmpty(n) == Ret(IterableMakeChild(PyList(<<>>), n, <<>>))

\* __getitem__ on an empty sequence
EmptyGetItem(n) ==
    IF n.opts.on_missing = "ignore"
    THEN Ret(IterableMakeChild(PyList(<<>>), n, <<>>))
    ELSE Raise("IndexError")

\* __getitem__(int) without a flag: the child's parent is the tracked one, if any
IterableIndex(n, key) ==
    LET item == ListGetItem(n.obj, key) IN
    IF Raised(item) THEN item
    ELSE IF n.child_parents # <<>>
    THEN LET p == ListGetItem(PyList(n.child_parents), key) IN
         IF Raised(p) THEN p ELSE Ret(IterableMakeChild(item.res, p.res, <<>>))
    ELSE Ret(IterableMakeChild(item.res, n, <<>>))

\* __getitem__(slice) without a flag
IterableSlice(n, key) ==
    LET items == ListGetItem(n.obj, key) IN
    IF n.child_parents # <<>>
    THEN Ret(IterableMakeChild(items.res, n, SliceOf(n.child_parents, key)))
    ELSE Ret(IterableMakeChild(items.res, n, <<>>))

\* __getitem__(key, False): the sequence's own __getitem__
IterableDirect(n, key) ==
    LET items == ListGetItem(n.obj, key) IN
    IF Raised(items) THEN items
    ELSE Ret(IterableMakeChild(items.res, n, n.child_parents))

\* The node of a broadcast whose children are the list `children`
Broadcasted(n, children) == IterableMakeChild(children, n, n.child_parents)

\* The node of a propagated extraction: tree.items are the grandchildren and
\* tree.parents the children they came from
Grandchildren(n, tree) ==
    LET len == IF Len(tree.items) < Len(tree.parents)
               THEN Len(tree.items) ELSE Len(tree.parents)
        all_parents == [i \in 1..len |-> IterableMakeChild(tree.parents[i], n, <<>>)]
    IN  IterableMakeChild(PyList(SubSeq(tree.items, 1, len)), n, all_parents)

\* x.get() on what a __getitem__ returned
Get(x) == IF "obj" \in DOMAIN x THEN Ret(x.obj) ELSE Raise("AttributeError")

\* The call needs no worker: the sequence is empty, or the argument is a
\* position or a slice, or the flag is False.
IsLocal(n, args) ==
    \/ Len(n.obj.v) = 0
    \/ Propagate(args) = "false"
    \/ Propagate(args) = "none" /\ Unflagged(args).t \in {"int", "bool", "slice"}

\* CherryPickerIterable.__getitem__ for a call that needs no worker
IterableGetItemLocal(n, args) ==
    LET key == Unflagged(args) IN
    IF Len(n.obj.v) = 0 THEN EmptyGetItem(n)
    ELSE IF Propagate(args) = "false" THEN IterableDirect(n, key)
    ELSE IF key.t = "slice" THEN IterableSlice(n, key)
    ELSE IterableIndex(n, key)

\* node.__getitem__(args) for a node with one worker, whatever its class is;
\* _get_grandchild_items calls it on each child of its batch.
RECURSIVE NodeGetItem(_, _)
RECURSIVE GetGrandchildItemsFrom(_, _, _)
NodeGetItem(n, args) ==
    CASE Classify(n.obj, n.opts) = "mapping" -> Wrap(MappingGetItem(n, args), n)
      [] Classify(n.obj, n.opts) = "leaf" -> LeafGetItem(n, args)
      [] OTHER ->
            IF IsLocal(n, args) THEN IterableGetItemLocal(n, args)
            ELSE IF Propagate(args) = "true"
            THEN LET r == GetGrandchildItemsFrom(Unflagged(args), n.obj.v, 1) IN
                 IF Raised(r) THEN r ELSE Ret(Grandchildren(n, r.res))
            ELSE LET r == GetChildItems(Unflagged(args), n.obj.v) IN
                 IF Raised(r) THEN r ELSE Ret(Broadcasted(n, PyList(r.res)))

GetGrandchildItemsFrom(keys, batch, i) ==
    IF i > Len(batch) THEN Ret([items |-> <<>>, parents |-> <<>>])
    ELSE LET parent == IterableMakeChild(batch[i], NoNode, <<>>)
             child == NodeGetItem(parent, keys)
             item == IF Raised(child) THEN child ELSE Get(child.res)
         IN  IF Raised(item) THEN item
             ELSE LET rest == GetGrandchildItemsFrom(keys, batch, i + 1) IN
                  IF Raised(rest) THEN rest
                  ELSE Ret([items |-> <<item.res>> \o rest.res.items,
                            parents |-> <<batch[i]>> \o rest.res.parents])

\* CherryPickerIterable._get_grandchild_items
GetGrandchildItems(keys, batch) == GetGrandchildItemsFrom(keys, batch, 1)

\* CherryPickerIterable._flatten(chunk, delim, maxdepth): the mapping children are
\* flattened with delim="_" and maxdepth=100 whatever the arguments are.
IterableFlattenChunk(chunk, delim, maxdepth) ==
    Ret([i \in 1..Len(chunk) |->
            IF GetCherryClass(chunk[i]) = "mapping"
            THEN MappingFlatten(chunk[i], DefaultDelim, PyInt(DefaultMaxDepth))
            ELSE chunk[i]])

\* What one worker returns for its chunk.
ChunkResult(chunk, c, opts) ==
    CASE c.op = "filter" -> FilterChunk(chunk, c, opts)
      [] c.op = "getitem" ->
            IF Propagate(c.args) = "true"
            THEN GetGrandchildItems(Unflagged(c.args), chunk)
            ELSE GetChildItems(Unflagged(c.args), chunk)
      [] c.op = "flatten" -> IterableFlattenChunk(chunk, c.delim, c.maxdepth)

\* The list the parallel call returned, reassembled: items[0] for one worker,
\* _join_chunks(items) otherwise.
Reassemble(n, items) ==
    IF EffectiveNJobs(n.opts) = 1
    THEN IF items = <<>> THEN Raise("IndexError") ELSE Ret(PyList(items[1]))
    ELSE Ret(PyList(JoinChunks(items)))

\* The same for the (items, parents) pairs of a propagated extraction.
ReassembleTree(n, tree) ==
    IF EffectiveNJobs(n.opts) = 1
    THEN IF tree = <<>> THEN Raise("IndexError") ELSE Ret(tree[1])
    ELSE Ret([items |-> JoinChunks([i \in 1..Len(tree) |-> tree[i].items]),
              parents |-> JoinChunks([i \in 1..Len(tree) |-> tree[i].parents])])

\* What the operation returns once the parallel call has returned `results`.
Reassembled(n, c, results) ==
    CASE c.op = "getitem" /\ Propagate(c.args) = "true" ->
            LET tree == ReassembleTree(n, results) IN
            IF Raised(tree) THEN tree ELSE Ret(Grandchildren(n, tree.res))
      [] c.op = "getitem" ->
            LET r == Reassemble(n, results) IN
            IF Raised(r) THEN r ELSE Ret(Broadcasted(n, r.res))
      [] c.op = "flatten" -> Wrap(Reassemble(n, results), n.parent)
      [] OTHER -> Wrap(Reassemble(n, results), n)

(***************************************************************************)
(* The inputs the actions draw from.                                       *)
(***************************************************************************)
FieldNames == <<"a", "b", "c">>
Field(i) == PyStr(<<FieldNames[i]>>)
Fields == {Field(i) : i \in 1..MaxPreds}
FieldVals == {PyStr(<<"x">>), PyInt(1)}
Absent == [t |-> "absent", v |-> "absent"]

\* The dictionary with the fields f gives a value, in the order of FieldNames.
DictOf(f) ==
    PyDict(SelectSeq([i \in 1..Len(f) |-> Item(Field(i), f[i])],
                     LAMBDA it : it.val # Absent))

\* The wrapped dictionaries: each of the first two fields is absent or has a value.
MappingObjs == {DictOf(f) : f \in [{1, 2} -> FieldVals \cup {Absent}]}

PredVals ==
    {Fn("isx"), Fn("err"), Fn("re_err"), Pat(<<"x">>),
     PyStr(<<"X">>), PyStr(<<"*">>), PyInt(1)}

Pred(attr, pred) == [attr |-> attr, pred |-> pred]

\* The keyword predicates of a call: the i-th is on the i-th field.
PredLists ==
    UNION {{[i \in 1..n |-> Pred(Field(i), ps[i])] : ps \in [1..n -> PredVals]} :
           n \in 0..MaxPreds}

NoCall == [op |-> "none"]

InitCall(obj, opts) == [op |-> "init", obj |-> obj, opts |-> opts]

FilterCall(how, allow_wildcards, case_sensitive, regex, preds) ==
    [op |-> "filter", how |-> how, allow_wildcards |-> allow_wildcards,
     case_sensitive |-> case_sensitive, regex |-> regex, preds |-> preds]

GetItemCall(args) == [op |-> "getitem", args |-> args]

FlattenCall(delim, maxdepth) == [op |-> "flatten", delim |-> delim, maxdepth |-> maxdepth]

\* (allow_wildcards, regex): allow_wildcards is read only when regex is false
MatchModes == {<<TRUE, FALSE>>, <<FALSE, FALSE>>, <<TRUE, TRUE>>}

MappingFilterCalls ==
    {FilterCall(how, m[1], cs, m[2], preds) :
        how \in PRED_RULES, m \in MatchModes, cs \in BOOLEAN, preds \in PredLists}
    \cup {FilterCall("None", TRUE, TRUE, FALSE, preds) : preds \in PredLists}

KeyTuples == UNION {{PyTuple(ks) : ks \in [1..n -> Fields]} : n \in 1..MaxKeys}

MappingOpts ==
    [on_missing : {"ignore", "raise"}, on_error : {"ignore", "raise"},
     on_leaf : {"raise"}, leaf_types : {DefaultLeafTypes},
     default : {None, PyStr(<<"d">>)}, n_jobs : {None, PyInt(0)}]

ChildSample ==
    {PyDict(<<Item(Field(1), PyStr(<<"x">>))>>),
     PyDict(<<Item(Field(1), PyInt(1)),
              Item(Field(2), PyDict(<<Item(Field(1), PyStr(<<"x">>))>>))>>)}

IterableObjs == {PyList(s) : s \in UNION {[1..n -> ChildSample] : n \in 0..MaxLen}}

IterableOpts ==
    [on_missing : {"ignore", "raise"}, on_error : {"ignore", "raise"},
     on_leaf : {"raise"}, leaf_types : {DefaultLeafTypes},
     default : {None},
     n_jobs : {None, PyInt(0), PyInt(-1)} \cup {PyInt(k) : k \in 1..MaxJobs}]

IterablePredLists ==
    {<<>>,
     <<Pred(Field(1), Fn("isx"))>>,
     <<Pred(Field(1), Fn("err"))>>,
     <<Pred(Field(1), Fn("isx")), Pred(Field(2), PyStr(<<"*">>))>>}

IterableFilterCalls ==
    {FilterCall(how, TRUE, TRUE, FALSE, preds) :
        how \in PRED_RULES, preds \in IterablePredLists}
    \cup {FilterCall("all", TRUE, TRUE, re, <<Pred(Field(1), PyStr(<<"*">>))>>) :
            re \in BOOLEAN}
    \cup {FilterCall("None", TRUE, TRUE, FALSE, <<Pred(Field(1), Fn("isx"))>>)}

IterableArgs ==
    {Field(1), PyTuple(<<Field(1), Field(2)>>), PyInt(0), PyInt(MaxLen),
     PySlice(1, MaxLen), PyTuple(<<Field(1), PyBool(TRUE)>>),
     PyTuple(<<Field(1), PyBool(FALSE)>>), PyTuple(<<PyInt(0), PyBool(FALSE)>>),
     PyTuple(<<PySlice(1, MaxLen), PyBool(FALSE)>>)}

ParentCall == [op |-> "parent"]

MaxChain == 2    \* deepest node a chain of calls goes on from

\* The roots of a chain of calls: a dictionary with a nested one, a list of
\* dictionaries, a list of a list, an empty list, a string and a number.
TreeObjs ==
    ChildSample
    \cup {PyList(<<PyDict(<<Item(Field(1), PyStr(<<"x">>))>>),
                   PyDict(<<Item(Field(1), PyInt(1)),
                            Item(Field(2), PyDict(<<Item(Field(1), PyStr(<<"x">>))>>))>>)>>),
          PyList(<<PyList(<<PyStr(<<"x">>), PyStr(<<"y">>)>>)>>),
          PyList(<<>>), PyStr(<<"x", "y">>), PyInt(5)}

LeafTypeInputs ==
    {None, DefaultLeafTypes, PyType("dict"), PyTuple(<<PyType("dict")>>),
     Fn("has_a"), PyTuple(<<PyType("str"), PyType("bytes"), Fn("argh")>>),
     PyInt(0), PyTuple(<<PyInt(0)>>)}

TreeOpts ==
    [on_missing : {"ignore", "raise"}, on_error : {"ignore"},
     on_leaf : {"raise", "ignore"}, leaf_types : LeafTypeInputs,
     default : {None, PyStr(<<"d">>)}, n_jobs : {None, PyInt(MaxJobs)}]

TreeArgs ==
    {Field(1), Field(2), PyTuple(<<Field(1), Field(2)>>), PyInt(0), PyInt(1),
     PyTuple(<<Field(1), PyBool(TRUE)>>), PyTuple(<<Field(2), PyBool(TRUE)>>),
     PyTuple(<<PyInt(0), PyBool(FALSE)>>),
     PyTuple(<<PyInt(0), PyInt(1)>>), PyTuple(<<PyInt(1), PyInt(0)>>)}

\* The dictionaries that are flattened: flat, nested twice and three times,
\* with a list inside, with an empty dictionary inside.
FlattenObjs ==
    {PyDict(<<Item(Field(1), PyStr(<<"x">>))>>),
     PyDict(<<Item(Field(1), PyInt(1)),
              Item(Field(2), PyDict(<<Item(Field(1), PyStr(<<"x">>))>>))>>),
     PyDict(<<Item(Field(1),
                   PyDict(<<Item(Field(2), PyDict(<<Item(Field(3), PyInt(1))>>))>>))>>),
     PyDict(<<Item(Field(2), PyList(<<PyStr(<<"x">>),
                                      PyDict(<<Item(Field(1), PyInt(1))>>)>>)),
              Item(Field(1), PyInt(1))>>),
     PyDict(<<Item(Field(1), PyDict(<<>>)), Item(Field(3), PyInt(1))>>)}

FlattenDelims == {DefaultDelim, <<".">>}

FlattenDepths == {None, PyInt(0), PyInt(1), PyInt(2), PyInt(DefaultMaxDepth)}

FlattenOpts ==
    [on_missing : {"ignore", "raise"}, on_error : {"ignore"},
     on_leaf : {"raise"}, leaf_types : {DefaultLeafTypes},
     default : {None, PyStr(<<"d">>)}, n_jobs : {None, PyInt(0)}]

(***************************************************************************)
(* keys(peek) of the iterable node.                                        *)
(***************************************************************************)
DefaultPeek == 5

\* self._obj[slice(None, peek, None)]
Preview(items, peek) ==
    LET stop == IF peek = None THEN Len(items)
                ELSE IF peek.v < 0
                THEN (IF Len(items) + peek.v < 0 THEN 0 ELSE Len(items) + peek.v)
                ELSE (IF peek.v > Len(items) THEN Len(items) ELSE peek.v)
    IN  SubSeq(items, 1, stop)

\* item.keys(): only a dictionary has the method
KeysOf(item) ==
    IF item.t = "dict" THEN Ret({item.v[i].k : i \in 1..Len(item.v)})
    ELSE Raise("AttributeError")

\* The loop over preview[1:]: an item without keys() leaves the set as it is.
RECURSIVE IntersectFrom(_, _, _)
IntersectFrom(keys, preview, i) ==
    IF i > Len(preview) THEN keys
    ELSE LET ks == KeysOf(preview[i]) IN
         IntersectFrom(IF Raised(ks) THEN keys ELSE keys \cap ks.res, preview, i + 1)

\* sorted(keys) for keys that are field names
Sorted(keys) ==
    SelectSeq([i \in 1..Len(FieldNames) |-> Field(i)], LAMBDA k : k \in keys)

\* CherryPickerIterable.keys(peek)
IterableKeys(n, peek) ==
    LET preview == Preview(n.obj.v, peek) IN
    IF preview = <<>> THEN Raise("IndexError")
    ELSE LET first == KeysOf(preview[1])
             keys == IF Raised(first) THEN {} ELSE first.res
         IN  Ret(PyList(Sorted(IntersectFrom(keys, preview, 2))))

KeysCall(peek) == [op |-> "keys", peek |-> peek]

\* The lists keys() is called on: dictionaries and a string, in any order
KeysObjs ==
    {PyList(s) : s \in UNION {[1..n -> ChildSample \cup {PyStr(<<"s">>)}] : n \in 0..MaxLen}}

Peeks == {None, PyInt(0), PyInt(1), PyInt(2), PyInt(DefaultPeek)}

KeysOpts ==
    [on_missing : {"ignore", "raise"}, on_error : {"ignore"},
     on_leaf : {"raise"}, leaf_types : {DefaultLeafTypes},
     default : {None}, n_jobs : {None, PyInt(MaxJobs)}]

(***************************************************************************)
(* OrderedSet (util.py): a doubly linked list of cells [item, prev, next]   *)
(* around a sentinel cell, and a map from keys to cells.  The cell of key k *)
(* is named k and the sentinel is named End.                                *)
(***************************************************************************)
MaxItem == 3     \* the items of an OrderedSet are 0..MaxItem
End == -1

Cell(item, prev, next) == [item |-> item, prev |-> prev, next |-> next]

\* OrderedSet.__init__ before the iterable is added
OrderedSetEmpty(key) ==
    [key |-> key, map |-> {}, cells |-> [id \in {End} |-> Cell(None, End, End)]]

\* _get_key: the key function of the model is the parity of the item
GetKey(os, item) == IF os.key = None THEN item.v ELSE item.v % 2

\* __len__
OrderedSetLen(os) == Cardinality(os.map)

\* __contains__
OrderedSetContains(os, item) == GetKey(os, item) \in os.map

\* add
OrderedSetAdd(os, item) ==
    LET key == GetKey(os, item)
        curr == os.cells[End].prev
    IN  IF key \in os.map THEN os
        ELSE [os EXCEPT
                !.map = @ \cup {key},
                !.cells = [id \in DOMAIN os.cells \cup {key} |->
                    IF id = key THEN Cell(item, curr, End)
                    ELSE [os.cells[id] EXCEPT
                            !.next = IF id = curr THEN key ELSE @,
                            !.prev = IF id = End THEN key ELSE @]]]

\* A discard that forgets the key and leaves the cell in the list.
OrderedSetDiscardUnlinked(os, item) ==
    [os EXCEPT !.map = @ \ {GetKey(os, item)}]

\* discard
OrderedSetDiscard(os, item) ==
    LET key == GetKey(os, item) IN
    IF key \notin os.map THEN os
    ELSE LET prev == os.cells[key].prev
             next == os.cells[key].next
         IN  [os EXCEPT
                !.map = @ \ {key},
                !.cells = [id \in DOMAIN os.cells \ {key} |->
                    [os.cells[id] EXCEPT
                        !.next = IF id = prev THEN next ELSE @,
                        !.prev = IF id = next THEN prev ELSE @]]]

\* __iter__ from cell curr on; fuel bounds the walk by the number of cells
RECURSIVE IterFrom(_, _, _)
IterFrom(os, curr, fuel) ==
    IF curr = End \/ fuel = 0 THEN <<>>
    ELSE <<os.cells[curr].item>> \o IterFrom(os, os.cells[curr].next, fuel - 1)

\* list(os)
OrderedSetIter(os) == IterFrom(os, os.cells[End].next, Cardinality(DOMAIN os.cells))

\* __reversed__ from cell curr on
RECURSIVE ReversedFrom(_, _, _)
ReversedFrom(os, curr, fuel) ==
    IF curr = End \/ fuel = 0 THEN <<>>
    ELSE <<os.cells[curr].item>> \o ReversedFrom(os, os.cells[curr].prev, fuel - 1)

\* list(reversed(os))
OrderedSetReversed(os) ==
    ReversedFrom(os, os.cells[End].prev, Cardinality(DOMAIN os.cells))

\* pop(last): the set afterwards and what is returned or raised
OrderedSetPop(os, last) ==
    IF OrderedSetLen(os) = 0 THEN [os |-> os, r |-> Raise("KeyError")]
    ELSE LET item == IF last THEN os.cells[os.cells[End].prev].item
                     ELSE os.cells[os.cells[End].next].item
         IN  [os |-> OrderedSetDiscard(os, item), r |-> Ret(item)]

\* self |= iterable: the items are added one after the other
RECURSIVE AddAll(_, _)
AddAll(os, items) ==
    IF items = <<>> THEN os ELSE AddAll(OrderedSetAdd(os, Head(items)), Tail(items))

\* OrderedSet(iterable, key)
OrderedSetNew(iterable, key) ==
    IF iterable = None THEN OrderedSetEmpty(key)
    ELSE AddAll(OrderedSetEmpty(key), iterable.v)

Items == {PyInt(i) : i \in 0..MaxItem}

OrderedSetIterables ==
    {None, PyList(<<>>), PyList(<<PyInt(0), PyInt(1)>>),
     PyList(<<PyInt(1), PyInt(0), PyInt(1)>>)}

OrderedSetKeys == {None, Fn("parity")}

SetCall(op, arg) == [op |-> op, arg |-> arg]

(***************************************************************************)
(* The state machine: a node is constructed, one operation is called on    *)
(* it, and (for an iterable) its chunks are worked on in any order and     *)
(* then reassembled.                                                       *)
(***************************************************************************)
Pending == [err |-> "pending", res |-> None]

Init ==
    /\ pc = "new"
    /\ node = NoNode
    /\ call = NoCall
    /\ chunks = <<>>
    /\ finished = <<>>
    /\ outcome = Pending
    /\ evals = 0

\* CherryPicker(obj, **opts)
Construct(obj, opts) ==
    /\ pc = "new"
    /\ call' = InitCall(obj, opts)
    /\ IF ValidNJobs(opts.n_jobs) /\ ~Raised(ParseLeafTypes(opts.leaf_types))
       THEN /\ node' = MakeNode(obj, opts, NoNode)
            /\ pc' = "ready"
            /\ outcome' = outcome
       ELSE /\ node' = node
            /\ pc' = "done"
            /\ outcome' = Raise("ValueError")
    /\ UNCHANGED <<chunks, finished, evals>>

\* A filter() that does not look at `how` before it filters.
FilterGuardNoHowCheck(c) ==
    IF Len(c.preds) = 0 THEN "self" ELSE "filter"

\* filter(): what happens before _filter is reached
FilterGuard(c) ==
    IF c.how \notin PRED_RULES THEN "raise"
    ELSE IF Len(c.preds) = 0 THEN "self"
    ELSE "filter"

\* The end of a call that needs no worker.
Finish(c, r, n_evals) ==
    /\ call' = c
    /\ outcome' = r
    /\ evals' = evals + n_evals
    /\ pc' = "done"
    /\ UNCHANGED <<node, chunks, finished>>

\* The start of a call whose chunks go to the workers.
Dispatch(c) ==
    /\ call' = c
    /\ chunks' = Chunks(node)
    /\ finished' = <<>>
    /\ pc' = "running"
    /\ UNCHANGED <<node, outcome, evals>>

ConstructMapping ==
    \E obj \in MappingObjs, opts \in MappingOpts : Construct(obj, opts)

\* filter() on a mapping node
MappingFilterCall ==
    /\ pc = "ready"
    /\ GetCherryClass(node.obj) = "mapping"
    /\ \E c \in MappingFilterCalls :
          CASE FilterGuard(c) = "raise" -> Finish(c, Raise("ValueError"), 0)
            [] FilterGuard(c) = "self" -> Finish(c, Ret(node), 0)
            [] FilterGuard(c) = "filter" -> Finish(c, Wrap(MappingFilter(node, c), node), 1)

\* __getitem__ on a mapping node
MappingGetItemCall ==
    /\ pc = "ready"
    /\ GetCherryClass(node.obj) = "mapping"
    /\ \E args \in Fields \cup KeyTuples :
          Finish(GetItemCall(args), Wrap(MappingGetItem(node, args), node), 0)

ConstructIterable ==
    \E obj \in IterableObjs, opts \in IterableOpts : Construct(obj, opts)

\* filter() on an iterable node
IterableFilterCall ==
    /\ pc = "ready"
    /\ GetCherryClass(node.obj) = "iterable"
    /\ \E c \in IterableFilterCalls :
          CASE FilterGuard(c) = "raise" -> Finish(c, Raise("ValueError"), 0)
            [] FilterGuard(c) = "self" -> Finish(c, Ret(node), 0)
            [] FilterGuard(c) = "filter" -> Dispatch(c)

\* __getitem__(args) on an iterable node
IterableGetItem(args) ==
    IF IsLocal(node, args)
    THEN Finish(GetItemCall(args), IterableGetItemLocal(node, args), 0)
    ELSE Dispatch(GetItemCall(args))

IterableGetItemCall ==
    /\ pc = "ready"
    /\ GetCherryClass(node.obj) = "iterable"
    /\ \E args \in IterableArgs : IterableGetItem(args)

\* flatten of an iterable node, with the delim and maxdepth that it hands to
\* _flatten
IterableFlattenCall ==
    /\ pc = "ready"
    /\ GetCherryClass(node.obj) = "iterable"
    /\ \E delim \in FlattenDelims, maxdepth \in {PyInt(0), PyInt(DefaultMaxDepth)} :
          Dispatch(FlattenCall(delim, maxdepth))

\* A worker finishes its chunk; the workers finish in any order.  finished
\* lists the chunks in the order their workers returned.
Worker ==
    /\ pc = "running"
    /\ \E i \in 1..Len(chunks) :
          /\ \A j \in 1..Len(finished) : finished[j].chunk # i
          /\ finished' = Append(finished,
                [chunk |-> i, r |-> ChunkResult(chunks[i], call, node.opts)])
          /\ evals' = evals + (IF call.op = "filter" THEN Len(chunks[i]) ELSE 0)
    /\ UNCHANGED <<pc, node, call, chunks, outcome>>

\* The exception of a worker is raised by the parallel call.
Reraise ==
    /\ pc = "running"
    /\ \E j \in 1..Len(finished) :
          /\ Raised(finished[j].r)
          /\ outcome' = Raise(finished[j].r.err)
    /\ pc' = "done"
    /\ UNCHANGED <<node, call, chunks, finished, evals>>

\* A parallel call that returns the results in the order the workers finished.
ParallelResultsAsCompleted ==
    [j \in 1..Len(finished) |-> finished[j].r.res]

\* What the parallel call returns: the workers' results in the order of the
\* chunks, whatever the order they finished in.
ParallelResults ==
    [i \in 1..Len(chunks) |->
        finished[CHOOSE j \in 1..Len(finished) : finished[j].chunk = i].r.res]

\* Every worker has returned: the results are reassembled and wrapped.
Collect ==
    /\ pc = "running"
    /\ Len(finished) = Len(chunks)
    /\ \A j \in 1..Len(finished) : ~Raised(finished[j].r)
    /\ outcome' = Reassembled(node, call, ParallelResults)
    /\ pc' = "done"
    /\ UNCHANGED <<node, call, chunks, finished, evals>>

ConstructTree ==
    \E obj \in TreeObjs, opts \in TreeOpts : Construct(obj, opts)

\* __getitem__(args) on a mapping node or a leaf node of a chain
TreeGetItemCall ==
    /\ pc = "ready"
    /\ \E args \in TreeArgs :
          CASE Classify(node.obj, node.opts) = "mapping" ->
                  Finish(GetItemCall(args), Wrap(MappingGetItem(node, args), node), 0)
            [] Classify(node.obj, node.opts) = "leaf" ->
                  Finish(GetItemCall(args), LeafGetItem(node, args), 0)
            [] OTHER -> FALSE

\* __getitem__(args) on an iterable node of a chain that wraps a list
TreeIterableGetItemCall ==
    /\ pc = "ready"
    /\ Classify(node.obj, node.opts) = "iterable"
    /\ node.obj.t = "list"
    /\ \E args \in TreeArgs : IterableGetItem(args)

\* node.parent
TreeParentCall ==
    /\ pc = "ready"
    /\ Finish(ParentCall, Parent(node), 0)

\* The node a call returned is the node of the next call of the chain.
Continue ==
    /\ pc = "done"
    /\ call.op \in {"getitem", "parent"}
    /\ ~Raised(outcome)
    /\ "obj" \in DOMAIN outcome.res
    /\ Depth(outcome.res) <= MaxChain
    /\ node' = outcome.res
    /\ pc' = "ready"
    /\ call' = NoCall
    /\ outcome' = Pending
    /\ chunks' = <<>>
    /\ finished' = <<>>
    /\ UNCHANGED evals

ConstructFlatten ==
    \E obj \in FlattenObjs, opts \in FlattenOpts : Construct(obj, opts)

\* flatten of a mapping node, with the delim and maxdepth that _flatten takes
MappingFlattenCall ==
    /\ pc = "ready"
    /\ GetCherryClass(node.obj) = "mapping"
    /\ \E delim \in FlattenDelims, maxdepth \in FlattenDepths :
          Finish(FlattenCall(delim, maxdepth),
                 Ret(MappingFlattenNode(node, delim, maxdepth)), 0)

ConstructKeys ==
    \E obj \in KeysObjs, opts \in KeysOpts : Construct(obj, opts)

\* keys(peek) on an iterable node
IterableKeysCall ==
    /\ pc = "ready"
    /\ GetCherryClass(node.obj) = "iterable"
    /\ \E peek \in Peeks : Finish(KeysCall(peek), IterableKeys(node, peek), 0)

\* OrderedSet(iterable, key)
ConstructOrderedSet ==
    /\ pc = "new"
    /\ \E iterable \in OrderedSetIterables, key \in OrderedSetKeys :
          /\ node' = OrderedSetNew(iterable, key)
          /\ call' = SetCall("init", iterable)
    /\ pc' = "ready"
    /\ UNCHANGED <<chunks, finished, outcome, evals>>

\* os.add(item)
AddCall ==
    /\ pc = "ready"
    /\ \E item \in Items :
          /\ node' = OrderedSetAdd(node, item)
          /\ call' = SetCall("add", item)
    /\ outcome' = Ret(None)
    /\ UNCHANGED <<pc, chunks, finished, evals>>

\* os.discard(item)
DiscardCall ==
    /\ pc = "ready"
    /\ \E item \in Items :
          /\ node' = OrderedSetDiscard(node, item)
          /\ call' = SetCall("discard", item)
    /\ outcome' = Ret(None)
    /\ UNCHANGED <<pc, chunks, finished, evals>>

\* os.pop(last)
PopCall ==
    /\ pc = "ready"
    /\ \E last \in BOOLEAN :
          /\ node' = OrderedSetPop(node, last).os
          /\ outcome' = OrderedSetPop(node, last).r
          /\ call' = SetCall("pop", last)
    /\ UNCHANGED <<pc, chunks, finished, evals>>

NextMapping == ConstructMapping \/ MappingFilterCall \/ MappingGetItemCall

SpecMapping == Init /\ [][NextMapping]_vars

NextIterable ==
    \/ ConstructIterable
    \/ IterableFilterCall
    \/ IterableGetItemCall
    \/ IterableFlattenCall
    \/ Worker
    \/ Reraise
    \/ Collect

SpecIterable == Init /\ [][NextIterable]_vars

NextTree ==
    \/ ConstructTree
    \/ TreeGetItemCall
    \/ TreeIterableGetItemCall
    \/ TreeParentCall
    \/ Continue
    \/ Worker
    \/ Reraise
    \/ Collect

SpecTree == Init /\ [][NextTree]_vars

NextFlatten == ConstructFlatten \/ MappingFlattenCall

SpecFlatten == Init /\ [][NextFlatten]_vars

NextKeys == ConstructKeys \/ IterableKeysCall

SpecKeys == Init /\ [][NextKeys]_vars

NextOrderedSet == ConstructOrderedSet \/ AddCall \/ DiscardCall \/ PopCall

SpecOrderedSet == Init /\ [][NextOrderedSet]_vars

(***************************************************************************)
(* Properties.                                                             *)
(***************************************************************************)
\* The operation of the state went through the workers.
IsBroadcast ==
    call.op = "getitem" /\ ~IsLocal(node, call.args) /\ Propagate(call.args) = "none"

Dispatched ==
    \/ call.op = "flatten"
    \/ call.op = "filter" /\ FilterGuard(call) = "filter"
    \/ IsBroadcast

\* The operation of the call applied to the whole sequence as one chunk, by
\* one worker: the result of the sequential run.
Sequential == ChunkResult(node.obj.v, call, node.opts)

\* The same node with n_jobs = 1, and the filter it runs: one chunk, items[0].
WithOneJob == [node EXCEPT !.opts.n_jobs = PyInt(1)]

FilterWithOneJob ==
    LET cs == Chunks(WithOneJob)
        rs == [i \in 1..Len(cs) |-> FilterChunk(cs[i], call, node.opts)]
    IN  IF \E i \in 1..Len(cs) : Raised(rs[i])
        THEN rs[CHOOSE i \in 1..Len(cs) : Raised(rs[i])]
        ELSE Reassemble(WithOneJob, [i \in 1..Len(cs) |-> rs[i].res])

\* C1: whatever the length of the sequence (empty and shorter than the worker
\* count included) and whatever the worker count, a finished filter returns
\* what the same filter returns with n_jobs = 1: the same children in the same
\* order, and it returns whenever the run with n_jobs = 1 returns.
C1_FilterEqualsOneJob ==
    (pc = "done" /\ call.op = "filter" /\ FilterGuard(call) = "filter") =>
        /\ Raised(outcome) <=> Raised(FilterWithOneJob)
        /\ ~Raised(outcome) => outcome.res.obj = FilterWithOneJob.res

\* The same statement over the non-empty sequences only.
C1_NonEmptyFilterEqualsOneJob ==
    (pc = "done" /\ call.op = "filter" /\ FilterGuard(call) = "filter"
        /\ Len(node.obj.v) > 0) =>
        /\ Raised(outcome) <=> Raised(FilterWithOneJob)
        /\ ~Raised(outcome) => outcome.res.obj = FilterWithOneJob.res

\* The result of the worker of chunk i.
ResultOf(i) == finished[CHOOSE j \in 1..Len(finished) : finished[j].chunk = i].r.res

\* The number of outputs of the chunks before chunk i.
RECURSIVE OutputsBefore(_)
OutputsBefore(i) == IF i <= 1 THEN 0 ELSE OutputsBefore(i - 1) + Len(ResultOf(i - 1))

\* C2: when a filter, a flatten or a broadcast extraction whose chunks went to
\* the workers returns, its result is the outputs of chunk 1, then those of
\* chunk 2, and so on, each chunk's outputs in the order its worker produced
\* them, whatever the order the workers finished in; so it equals the result
\* of the sequential run over the whole sequence.
C2_ReassemblyInChunkOrder ==
    (pc = "done" /\ Dispatched /\ ~Raised(outcome)) =>
        LET out == outcome.res.obj.v IN
        /\ Len(finished) = Len(chunks)
        /\ Len(out) = OutputsBefore(Len(chunks) + 1)
        /\ \A i \in 1..Len(chunks) : \A k \in 1..Len(ResultOf(i)) :
              out[OutputsBefore(i) + k] = ResultOf(i)[k]
        /\ ~Raised(Sequential) /\ out = Sequential.res

\* Three workers finished in the order 3, 1, 2 and the result has an element
\* of the first chunk and one of the last.
C2_Witness ==
    /\ pc = "done" /\ Dispatched /\ ~Raised(outcome)
    /\ Len(finished) = 3
    /\ finished[1].chunk = 3 /\ finished[2].chunk = 1
    /\ Len(ResultOf(1)) > 0 /\ Len(ResultOf(3)) > 0
    /\ call.op = "filter"

\* A filter call on a mapping node that reached the evaluator has ended.
FilterDone ==
    /\ pc = "done"
    /\ call.op = "filter"
    /\ FilterGuard(call) = "filter"
    /\ GetCherryClass(node.obj) = "mapping"

\* The result of the i-th field predicate of the call on the wrapped mapping.
PerField(i) ==
    FieldResult(node.obj, call.preds[i].attr, call.preds[i].pred, call, node.opts)

\* The evaluation gets to the i-th predicate: none before it raised or decided.
Reached(i) ==
    \A j \in 1..(i - 1) :
        /\ ~Raised(PerField(j))
        /\ call.how = "any" => ~PerField(j).res
        /\ call.how = "all" => PerField(j).res

\* The i-th field of the call is in the wrapped mapping.
Present(i) == DictHas(node.obj, call.preds[i].attr)

\* The filter call returned the node's own mapping: the evaluator returned true.
Matched == ~Raised(outcome) /\ outcome.res.obj = node.obj

\* C3: when the evaluator returns, under how = all it returns true exactly
\* when every field's result is true (and false only with some field's result
\* false), under how = any it returns true exactly when some field's result is
\* true (and false only with every field's result false); a field that the
\* candidate lacks has the result false under on_missing = ignore.
C3_AllIsAndAnyIsOr ==
    (FilterDone /\ ~Raised(outcome)) =>
        LET n == Len(call.preds) IN
        /\ (call.how = "all" /\ Matched) => \A i \in 1..n : PerField(i) = Ret(TRUE)
        /\ (call.how = "all" /\ ~Matched) => \E i \in 1..n : PerField(i) = Ret(FALSE)
        /\ (call.how = "any" /\ Matched) => \E i \in 1..n : PerField(i) = Ret(TRUE)
        /\ (call.how = "any" /\ ~Matched) => \A i \in 1..n : PerField(i) = Ret(FALSE)
        /\ \A i \in 1..n :
              (~Present(i) /\ node.opts.on_missing = "ignore") => PerField(i) = Ret(FALSE)

\* Two predicates under how = all, the first true, the second on an absent
\* field: the conjunction is false where the disjunction is true.
C3_Witness ==
    /\ FilterDone /\ ~Raised(outcome)
    /\ Len(call.preds) = 2 /\ call.how = "all"
    /\ PerField(1) = Ret(TRUE)
    /\ ~Present(2) /\ node.opts.on_missing = "ignore"
    /\ ~Matched

\* C4: a filter on one field that the candidate lacks returns the default (no
\* match, no error) under on_missing = ignore and raises AttributeError, the
\* missing-field error, under on_missing = raise.
C4_MissingFieldPolicy ==
    (FilterDone /\ Len(call.preds) = 1 /\ ~Present(1)) =>
        IF node.opts.on_missing = "ignore"
        THEN outcome = Ret(MakeChild(node.opts.default, node))
        ELSE outcome = Raise("AttributeError")

\* The field is absent, the policy is raise, and the call raised.
C4_Witness ==
    /\ FilterDone /\ Len(call.preds) = 1 /\ ~Present(1)
    /\ node.opts.on_missing = "raise"
    /\ node.opts.on_error = "ignore"
    /\ outcome = Raise("AttributeError")

\* The i-th predicate is a string that is no regular expression.
MalformedPred(i) == call.preds[i].pred.t = "str" /\ Malformed(call.preds[i].pred.v)

\* C5 as stated: a filter call with regex = true and a malformed pattern among
\* its predicates always fails with the pattern error.
C5_MalformedAlwaysRaises ==
    (FilterDone /\ call.regex /\ \E i \in 1..Len(call.preds) : MalformedPred(i)) =>
        outcome = Raise("re.error")

\* C5 as amended: the call fails with the pattern error, under on_error =
\* ignore as under raise, when the evaluation gets to the malformed pattern
\* with its field present and either case_sensitive is true or the field's
\* value is a string.
C5_EvaluatedMalformedRaises ==
    (FilterDone /\ call.regex /\
        \E i \in 1..Len(call.preds) :
            /\ MalformedPred(i) /\ Reached(i) /\ Present(i)
            /\ call.case_sensitive \/ DictGet(node.obj, call.preds[i].attr).t = "str") =>
        outcome = Raise("re.error")

\* The pattern error was raised although on_error = ignore.
C5_Witness ==
    /\ FilterDone /\ call.regex
    /\ MalformedPred(1) /\ Present(1)
    /\ node.opts.on_error = "ignore"
    /\ outcome = Raise("re.error")

\* The i-th predicate is a function that raises on the field's present value.
FunctionRaises(i) ==
    /\ call.preds[i].pred.t = "fn"
    /\ Present(i)
    /\ Raised(CallPred(call.preds[i].pred.v, DictGet(node.obj, call.preds[i].attr)))

\* The exception the function of the i-th predicate raises.
RaisedBy(i) == CallPred(call.preds[i].pred.v, DictGet(node.obj, call.preds[i].attr)).err

\* C6 as stated: when the evaluation gets to a function that raises on the
\* present value, the exception is the call's under on_error = raise, and
\* otherwise the field's result is false (a call with that one predicate
\* returns the default).
C6_FunctionErrorPolicy ==
    FilterDone =>
        \A i \in 1..Len(call.preds) : (Reached(i) /\ FunctionRaises(i)) =>
            IF node.opts.on_error = "raise"
            THEN outcome = Raise(RaisedBy(i))
            ELSE /\ PerField(i) = Ret(FALSE)
                 /\ Len(call.preds) = 1 => outcome = Ret(MakeChild(node.opts.default, node))

\* C6 as amended: the same for every exception but the pattern error; a
\* pattern error that the function raises is the call's under both policies.
C6_FunctionErrorPolicyButPattern ==
    FilterDone =>
        \A i \in 1..Len(call.preds) : (Reached(i) /\ FunctionRaises(i)) =>
            IF node.opts.on_error = "raise" \/ RaisedBy(i) = "re.error"
            THEN outcome = Raise(RaisedBy(i))
            ELSE /\ PerField(i) = Ret(FALSE)
                 /\ Len(call.preds) = 1 => outcome = Ret(MakeChild(node.opts.default, node))

\* The function raised ValueError, on_error = ignore, and the call returned
\* the default.
C6_Witness ==
    /\ FilterDone /\ Len(call.preds) = 1 /\ FunctionRaises(1)
    /\ RaisedBy(1) = "ValueError"
    /\ node.opts.on_error = "ignore"
    /\ outcome = Ret(MakeChild(node.opts.default, node))

\* The consequence for an iterable node: the filter on one function that
\* raised (no pattern error) on every child's value returns no child.
C6_IterableKeepsNone ==
    (pc = "done" /\ call.op = "filter" /\ FilterGuard(call) = "filter"
        /\ GetCherryClass(node.obj) = "iterable" /\ Len(node.obj.v) > 0
        /\ Len(call.preds) = 1 /\ call.preds[1].pred = Fn("err")
        /\ \A i \in 1..Len(node.obj.v) : DictHas(node.obj.v[i], call.preds[1].attr)) =>
        IF node.opts.on_error = "raise"
        THEN outcome = Raise("ValueError")
        ELSE outcome = Ret(MakeChild(PyList(<<>>), node))

\* C7: a worker count of 0 and a `how` that is neither all nor any end the
\* call with ValueError, the configuration error, with no chunk formed, no
\* worker started and no predicate evaluated on any child; no node has
\* n_jobs = 0.
C7_ConfigErrorsFailFast ==
    /\ (call.op = "init" /\ call.opts.n_jobs = PyInt(0)) =>
          /\ pc = "done" /\ outcome = Raise("ValueError") /\ node = NoNode
          /\ chunks = <<>> /\ finished = <<>> /\ evals = 0
    /\ (call.op = "filter" /\ call.how \notin {"all", "any"}) =>
          /\ pc = "done" /\ outcome = Raise("ValueError")
          /\ chunks = <<>> /\ finished = <<>> /\ evals = 0
    /\ node # NoNode => node.opts.n_jobs # PyInt(0)

\* A filter with how = None on a sequence of several children, several workers.
C7_Witness ==
    /\ pc = "done" /\ call.op = "filter" /\ call.how = "None"
    /\ Len(call.preds) > 0
    /\ Len(node.obj.v) > 1 /\ EffectiveNJobs(node.opts) > 1
    /\ outcome = Raise("ValueError")

\* C8: a filter with at least one predicate on a mapping node returns a child
\* of the node that wraps the node's own map when the map matches and the
\* configured default when it does not.
C8_MappingFilterResult ==
    FilterDone =>
        LET m == FilterItem(node.obj, call, node.opts) IN
        /\ Raised(outcome) <=> Raised(m)
        /\ ~Raised(outcome) =>
              /\ outcome.res.obj = IF m.res THEN node.obj ELSE node.opts.default
              /\ outcome.res.parent = node
              /\ outcome.res.opts = node.opts

\* The map did not match and the child wraps the configured default "d".
C8_Witness ==
    /\ FilterDone /\ ~Raised(outcome)
    /\ node.opts.default = PyStr(<<"d">>)
    /\ outcome.res.obj = PyStr(<<"d">>)
    /\ outcome.res.parent = node

\* C9: extraction of a tuple of keys (k1..kn) from a mapping node returns a
\* child wrapping the list [v1..vn] in the order of the keys, vi the map's
\* value for ki or, for an absent ki under on_missing = ignore, the default;
\* under on_missing = raise an absent key makes the call raise.
C9_MappingTupleExtraction ==
    (pc = "done" /\ call.op = "getitem" /\ call.args.t = "tuple"
        /\ GetCherryClass(node.obj) = "mapping") =>
        LET keys == call.args.v
            expected == [i \in 1..Len(keys) |->
                            IF DictHas(node.obj, keys[i])
                            THEN DictGet(node.obj, keys[i])
                            ELSE node.opts.default]
        IN  IF node.opts.on_missing = "ignore"
               \/ \A i \in 1..Len(keys) : DictHas(node.obj, keys[i])
            THEN /\ ~Raised(outcome)
                 /\ outcome.res.obj = PyList(expected)
                 /\ outcome.res.parent = node
            ELSE outcome = Raise("KeyError")

\* Two different keys, the first absent: the row is [default, value].
C9_Witness ==
    /\ pc = "done" /\ call.op = "getitem" /\ call.args.t = "tuple"
    /\ Len(call.args.v) = 2
    /\ ~DictHas(node.obj, call.args.v[1]) /\ DictHas(node.obj, call.args.v[2])
    /\ node.opts.on_missing = "ignore" /\ node.opts.default = PyStr(<<"d">>)
    /\ ~Raised(outcome)
    /\ outcome.res.obj.v[1] = PyStr(<<"d">>)

\* What the specification has a child contribute to the broadcast of keys.
BroadcastEntry(child, keys) ==
    LET One(k) == IF DictHas(child, k) THEN DictGet(child, k) ELSE node.opts.default
    IN  IF keys.t = "tuple"
        THEN PyList([i \in 1..Len(keys.v) |-> One(keys.v[i])])
        ELSE One(keys)

\* The child has the key, or every key of the tuple.
HasAll(child, keys) ==
    IF keys.t = "tuple"
    THEN \A i \in 1..Len(keys.v) : DictHas(child, keys.v[i])
    ELSE DictHas(child, keys)

\* C10: the broadcast of a key or a tuple of keys over a non-empty iterable
\* node returns a list of the same length, its i-th entry taken from the i-th
\* child, the default standing for an absent key under on_missing = ignore;
\* under on_missing = raise an absent key makes the broadcast raise.
C10_BroadcastMissingPolicy ==
    (pc = "done" /\ IsBroadcast
        /\ GetCherryClass(node.obj) = "iterable" /\ Len(node.obj.v) > 0) =>
        LET children == node.obj.v
            expected == [i \in 1..Len(children) |-> BroadcastEntry(children[i], call.args)]
        IN  IF node.opts.on_missing = "ignore"
               \/ \A i \in 1..Len(children) : HasAll(children[i], call.args)
            THEN ~Raised(outcome) /\ outcome.res.obj = PyList(expected)
            ELSE Raised(outcome)

\* The part of C10 that the code keeps: with every key present the entries are
\* the children's values in order, and with on_missing = raise an absent key
\* raises KeyError.
C10_BroadcastOfPresentKeys ==
    (pc = "done" /\ IsBroadcast
        /\ GetCherryClass(node.obj) = "iterable" /\ Len(node.obj.v) > 0) =>
        LET children == node.obj.v
            expected == [i \in 1..Len(children) |-> BroadcastEntry(children[i], call.args)]
        IN  IF \A i \in 1..Len(children) : HasAll(children[i], call.args)
            THEN ~Raised(outcome) /\ outcome.res.obj = PyList(expected)
            ELSE outcome = Raise("KeyError")

\* C11: indexing an iterable node that wraps an empty sequence, by a key, a
\* tuple of keys, a position, a slice or any of them with a flag, returns a
\* child node wrapping an empty sequence when on_missing = ignore and raises
\* IndexError when on_missing = raise; no chunk goes to a worker.
C11_EmptyIndexing ==
    (pc = "done" /\ call.op = "getitem"
        /\ GetCherryClass(node.obj) = "iterable" /\ Len(node.obj.v) = 0) =>
        /\ chunks = <<>>
        /\ IF node.opts.on_missing = "ignore"
           THEN /\ ~Raised(outcome)
                /\ outcome.res.obj = PyList(<<>>)
                /\ Classify(outcome.res.obj, outcome.res.opts) = "iterable"
                /\ outcome.res.parent = node
           ELSE outcome = Raise("IndexError")

\* An empty sequence indexed by a slice under on_missing = raise.
C11_Witness ==
    /\ pc = "done" /\ call.op = "getitem"
    /\ GetCherryClass(node.obj) = "iterable" /\ Len(node.obj.v) = 0
    /\ call.args.t = "slice"
    /\ node.opts.on_missing = "raise"
    /\ outcome = Raise("IndexError")


\* The call of the state is __getitem__ on a leaf node.
LeafIndexed ==
    pc = "done" /\ call.op = "getitem" /\ Classify(node.obj, node.opts) = "leaf"

\* C12: indexing a leaf node fails with a leaf-traversal error (LeafError) when
\* on_leaf = raise, and with on_leaf = ignore it returns what the wrapped
\* value's own indexing returns, or fails as that indexing fails.
C12_LeafIndexing ==
    LeafIndexed =>
        IF node.opts.on_leaf = "raise"
        THEN outcome = Raise("LeafError")
        ELSE outcome = ChildGetItem(node.obj, call.args)

\* C12, the part that holds: on_leaf = ignore hands the index to the wrapped
\* value, and on_leaf = raise returns nothing.
C12_LeafIgnoreDelegates ==
    LeafIndexed =>
        IF node.opts.on_leaf = "raise"
        THEN Raised(outcome)
        ELSE outcome = ChildGetItem(node.obj, call.args)


\* leaf_types of the node of the state, as the sequence of its entries
LeafEntries ==
    IF node.opts.leaf_types = None THEN <<>>
    ELSE IF node.opts.leaf_types.t = "tuple" THEN node.opts.leaf_types.v
    ELSE <<node.opts.leaf_types>>

\* The value of the node has "a" in it: a key of a dictionary, an element of a
\* list, a character of a string.
HasA ==
    CASE node.obj.t = "dict" -> DictHas(node.obj, Field(1))
      [] node.obj.t = "list" -> \E i \in 1..Len(node.obj.v) : node.obj.v[i] = Field(1)
      [] node.obj.t = "str" -> \E i \in 1..Len(node.obj.v) : node.obj.v[i] = "a"
      [] OTHER -> FALSE

\* A leaf type is the exact type of the value, or a leaf function is true of it.
Overridden ==
    \E i \in 1..Len(LeafEntries) :
        \/ LeafEntries[i] = PyType(node.obj.t)
        \/ LeafEntries[i] = Fn("has_a") /\ HasA

\* The class of the node of the state
Kind == Classify(node.obj, node.opts)

MappingFlattened ==
    pc = "done" /\ call.op = "flatten" /\ GetCherryClass(node.obj) = "mapping"

\* The leaves of a tree in depth-first order (keys of a map in their order,
\* then positions of a sequence), each with its path joined by delim.
RECURSIVE PathEntries(_, _, _)
RECURSIVE PathEntriesEach(_, _, _, _)
PathEntries(obj, path, delim) ==
    IF obj.t \in {"dict", "list"} THEN PathEntriesEach(obj, path, delim, 1)
    ELSE <<Item(PyStr(path), obj)>>

PathEntriesEach(obj, path, delim, i) ==
    IF i > Len(obj.v) THEN <<>>
    ELSE LET key == IF obj.t = "dict" THEN obj.v[i].k ELSE PyInt(i - 1)
             val == IF obj.t = "dict" THEN obj.v[i].val ELSE obj.v[i]
             sub == IF path = <<>> THEN Format(key) ELSE path \o delim \o Format(key)
         IN  PathEntries(val, sub, delim) \o PathEntriesEach(obj, path, delim, i + 1)

\* The depth of the deepest value of a tree, the root being at depth 0.
RECURSIVE Nesting(_)
Nesting(obj) ==
    IF obj.t \notin {"dict", "list"} \/ Len(obj.v) = 0 THEN 0
    ELSE LET sub == {Nesting(IF obj.t = "dict" THEN obj.v[i].val ELSE obj.v[i]) :
                        i \in 1..Len(obj.v)}
         IN  1 + CHOOSE d \in sub : \A x \in sub : x <= d

WithinLimit == call.maxdepth = None \/ Nesting(node.obj) <= call.maxdepth.v

\* C14: flattening a mapping whose nesting stays within the depth limit gives
\* one entry per leaf of the tree, in depth-first order: the key is the path
\* to the leaf joined by the delimiter, the value is the leaf.
C14_FlattenOneEntryPerLeaf ==
    (MappingFlattened /\ WithinLimit) =>
        /\ ~Raised(outcome)
        /\ outcome.res.obj = PyDict(PathEntries(node.obj, <<>>, call.delim))

\* C14, the part that holds: the same with the default delimiter.
C14_DefaultDelimiterFlatten ==
    (MappingFlattened /\ WithinLimit /\ call.delim = DefaultDelim) =>
        /\ ~Raised(outcome)
        /\ outcome.res.obj = PyDict(PathEntries(node.obj, <<>>, call.delim))

\* The values met at depth d of a tree, and the leaves met above it, in
\* depth-first order.
RECURSIVE ValuesAt(_, _)
RECURSIVE ValuesAtEach(_, _, _)
ValuesAt(obj, d) ==
    IF d = 0 \/ obj.t \notin {"dict", "list"} THEN <<obj>>
    ELSE ValuesAtEach(obj, d, 1)

ValuesAtEach(obj, d, i) ==
    IF i > Len(obj.v) THEN <<>>
    ELSE ValuesAt(IF obj.t = "dict" THEN obj.v[i].val ELSE obj.v[i], d - 1)
            \o ValuesAtEach(obj, d, i + 1)

\* The values of a flat map, in its order
FlatValues(flat) == [i \in 1..Len(flat.v) |-> flat.v[i].val]

\* The number of path segments of a key whose segments and delimiters are
\* one character each.
Segments(key) == (Len(key.v) + 1) \div 2

\* C15 as stated: flatten with max_depth = m stops at depth m, the root being
\* at depth 0: the values reached at depth m are stored unchanged and no key
\* has more than m segments.
C15_StopsAtMaxDepth ==
    (MappingFlattened /\ call.maxdepth # None) =>
        /\ FlatValues(outcome.res.obj) = ValuesAt(node.obj, call.maxdepth.v)
        /\ \A i \in 1..Len(outcome.res.obj.v) :
              Segments(outcome.res.obj.v[i].k) <= call.maxdepth.v

\* C15, amended: the descent stops one level further down, at depth m + 1:
\* the values reached there are stored unchanged, mappings and sequences
\* too, and no key has more than m + 1 segments.
C15_StopsBelowMaxDepth ==
    (MappingFlattened /\ call.maxdepth # None) =>
        /\ FlatValues(outcome.res.obj) = ValuesAt(node.obj, call.maxdepth.v + 1)
        /\ \A i \in 1..Len(outcome.res.obj.v) :
              Segments(outcome.res.obj.v[i].k) <= call.maxdepth.v + 1

C15_Witness ==
    /\ MappingFlattened /\ call.maxdepth = PyInt(1)
    /\ Nesting(node.obj) = 3
    /\ \E i \in 1..Len(outcome.res.obj.v) :
          /\ outcome.res.obj.v[i].val.t = "dict"
          /\ Segments(outcome.res.obj.v[i].k) = 2


\* The call of the state is the flatten of an iterable node.
IterableFlattened ==
    pc = "done" /\ call.op = "flatten" /\ GetCherryClass(node.obj) = "iterable"

\* Each mapping child replaced by its flatten with delim and maxdepth, the
\* other children as they are.
FlattenedChildren(delim, maxdepth) ==
    PyList([i \in 1..Len(node.obj.v) |->
                IF GetCherryClass(node.obj.v[i]) = "mapping"
                THEN MappingFlatten(node.obj.v[i], delim, maxdepth)
                ELSE node.obj.v[i]])

\* C16: flattening an iterable node with delimiter d and max_depth m returns,
\* for every worker count, a sequence of the same length and order where each
\* mapping child is replaced by its mapping flatten computed with d and m and
\* every other child is passed through.
C16_IterableFlattenWithArguments ==
    IterableFlattened =>
        /\ ~Raised(outcome)
        /\ outcome.res.obj = FlattenedChildren(call.delim, call.maxdepth)

\* C16, the part that holds: a non-empty sequence is flattened child by
\* child, in order, with the default delimiter and depth limit whatever the
\* arguments are.
C16_IterableFlattenWithDefaults ==
    (IterableFlattened /\ Len(node.obj.v) > 0) =>
        /\ ~Raised(outcome)
        /\ outcome.res.obj = FlattenedChildren(DefaultDelim, PyInt(DefaultMaxDepth))


\* What a call returned is a node, not a bare value.
ReturnedNode == ~Raised(outcome) /\ "obj" \in DOMAIN outcome.res

\* C17: the parent query of a directly constructed root fails with
\* AttributeError (no parent); a node returned by indexing a node N that
\* tracks no per-child parents, by a position, a key or keys, has N as its
\* parent, so that N[k].parent[j] is N[j].
C17_ParentOfChild ==
    /\ (pc = "done" /\ call.op = "parent" /\ node.parent = NoNode) =>
            outcome = Raise("AttributeError")
    /\ (pc = "done" /\ call.op = "parent" /\ node.parent # NoNode) =>
            outcome = Ret(node.parent)
    /\ (pc = "done" /\ call.op = "getitem" /\ ReturnedNode
            /\ node.child_parents = <<>>) =>
            /\ Parent(outcome.res) = Ret(node)
            /\ \A j \in TreeArgs :
                  NodeGetItem(Parent(outcome.res).res, j) = NodeGetItem(node, j)

C17_Witness ==
    /\ pc = "done" /\ call.op = "parent"
    /\ node.parent # NoNode /\ node.parent.parent = NoNode
    /\ node.parent.obj.t = "list" /\ node.obj.t = "dict"
    /\ outcome = Ret(node.parent)


\* The call of the state is N[k, True] for one key k on a non-empty list of
\* dictionaries, N having the default leaf types.
PropagatedKey ==
    /\ pc = "done" /\ call.op = "getitem"
    /\ Kind = "iterable" /\ node.obj.t = "list" /\ Len(node.obj.v) > 0
    /\ node.opts.leaf_types = DefaultLeafTypes
    /\ \A i \in 1..Len(node.obj.v) : node.obj.v[i].t = "dict"
    /\ Propagate(call.args) = "true" /\ Unflagged(call.args).t = "str"

\* The result of N[k, True]: it has the length of N, its i-th element is
\* what `value(i)` says, and indexing it at i gives a node whose parent wraps
\* the i-th child of N and is not N.
PropagatedAs(value(_)) ==
    /\ ReturnedNode
    /\ Len(outcome.res.obj.v) = Len(node.obj.v)
    /\ \A i \in 1..Len(node.obj.v) :
          /\ outcome.res.obj.v[i] = value(i)
          /\ LET at == IterableIndex(outcome.res, PyInt(i - 1)) IN
              /\ ~Raised(at)
              /\ at.res.parent.obj = node.obj.v[i]
              /\ at.res.parent # node
              /\ at.res.parent.parent = node

\* The value of key k in the i-th child of N, `missing` when it has none.
ChildValue(i, k, missing) ==
    IF DictHas(node.obj.v[i], k) THEN DictGet(node.obj.v[i], k) ELSE missing

\* C18: for a non-empty iterable node N and key k, N[k, True] returns an
\* iterable node of the length of N whose i-th element is the value of k in
\* the i-th child of N, N's default when the child has no k under
\* on_missing = ignore; indexing the result at i gives a node whose parent
\* wraps the i-th child of N, not N.
C18_PropagateUsesDefault ==
    (PropagatedKey /\ node.opts.on_missing = "ignore") =>
        LET value(i) == ChildValue(i, Unflagged(call.args), node.opts.default)
        IN  PropagatedAs(value)

\* C18, the part that holds: the same where a child without k gives None,
\* the default of the class, under both on_missing policies of N.
C18_PropagateTracksParents ==
    PropagatedKey =>
        LET value(i) == ChildValue(i, Unflagged(call.args), None)
        IN  PropagatedAs(value)


\* The call of the state is N[x, False] on an iterable node.
FlaggedFalse ==
    /\ pc = "done" /\ call.op = "getitem"
    /\ GetCherryClass(node.obj) = "iterable"
    /\ Propagate(call.args) = "false"

\* C19: N[x, False] behaves as N[x] for a position, a slice, a key or a tuple
\* of keys: the same wrapped value with the same parent, or the same failure.
C19_FalseFlagIsNoFlag ==
    FlaggedFalse => outcome = NodeGetItem(node, Unflagged(call.args))

\* C19, the part that holds: N[x, False] is N[x] when x is a position or a
\* slice and N tracks no per-child parents, and whatever x is when N is empty.
C19_FalseFlagOnPositions ==
    (FlaggedFalse /\ node.child_parents = <<>>
        /\ (Unflagged(call.args).t \in {"int", "slice"} \/ Len(node.obj.v) = 0)) =>
        outcome = NodeGetItem(node, Unflagged(call.args))


\* The call of the state is keys(peek) on an iterable node.
KeysDone == pc = "done" /\ call.op = "keys" /\ GetCherryClass(node.obj) = "iterable"

\* The first peek children of the node, all of them when peek is None
Inspected ==
    IF call.peek = None \/ call.peek.v > Len(node.obj.v) THEN node.obj.v
    ELSE SubSeq(node.obj.v, 1, call.peek.v)

\* The keys that every mapping among the inspected children has.
CommonKeys ==
    {k \in {Field(i) : i \in 1..Len(FieldNames)} :
        /\ \E i \in 1..Len(Inspected) : Inspected[i].t = "dict"
        /\ \A i \in 1..Len(Inspected) :
              Inspected[i].t = "dict" => DictHas(Inspected[i], k)}

\* The list is sorted and has the keys of `keys`, each once.
SortedListOf(list, keys) ==
    /\ {list.v[i] : i \in 1..Len(list.v)} = keys
    /\ \A i, j \in 1..Len(list.v) : i < j =>
          \E a, b \in 1..Len(FieldNames) :
              a < b /\ list.v[i] = Field(a) /\ list.v[j] = Field(b)

\* C20: keys(peek) inspects the first peek children only (all when peek is
\* None) and returns, sorted, the keys common to the mapping children among
\* them; a child that is not a mapping is skipped without error wherever it
\* is and does not shrink the result.
C20_KeysIntersection ==
    KeysDone =>
        /\ ~Raised(outcome)
        /\ SortedListOf(outcome.res, CommonKeys)

\* C20, the part that holds: the same when the first inspected child is a
\* mapping.
C20_KeysWhenFirstIsMapping ==
    (KeysDone /\ Inspected # <<>> /\ Inspected[1].t = "dict") =>
        /\ ~Raised(outcome)
        /\ SortedListOf(outcome.res, CommonKeys)


\* The members of the set of the state, in iteration order
Members == OrderedSetIter(node)

\* The keys of the items of a sequence
KeysIn(os, s) == {GetKey(os, s[i]) : i \in 1..Len(s)}

Reverse(s) == [i \in 1..Len(s) |-> s[Len(s) + 1 - i]]

\* s without its items of key k
Without(os, s, k) == SelectSeq(s, LAMBDA x : GetKey(os, x) # k)

\* What a set shows of itself agrees with the sequence of its members: no
\* member twice, reversed iteration is the reverse, len is the count, and
\* membership is membership.
Coherent ==
    pc = "ready" =>
        /\ \A i, j \in 1..Len(Members) :
              i # j => GetKey(node, Members[i]) # GetKey(node, Members[j])
        /\ OrderedSetReversed(node) = Reverse(Members)
        /\ OrderedSetLen(node) = Len(Members)
        /\ \A x \in Items :
              OrderedSetContains(node, x) <=> GetKey(node, x) \in KeysIn(node, Members)

\* One operation moves the sequence of members as the operation on a
\* duplicate-free sequence does.
StepOnSequence ==
    LET before == OrderedSetIter(node)
        after == OrderedSetIter(node')
    IN  pc = "ready" =>
        CASE call'.op = "add" ->
                after = IF GetKey(node, call'.arg) \in KeysIn(node, before)
                        THEN before ELSE Append(before, call'.arg)
          [] call'.op = "discard" ->
                after = Without(node, before, GetKey(node, call'.arg))
          [] call'.op = "pop" ->
                IF before = <<>>
                THEN outcome' = Raise("KeyError") /\ after = <<>>
                ELSE IF call'.arg
                THEN /\ outcome' = Ret(before[Len(before)])
                     /\ after = SubSeq(before, 1, Len(before) - 1)
                ELSE /\ outcome' = Ret(before[1])
                     /\ after = Tail(before)
          [] OTHER -> FALSE

\* C21: OrderedSet refines a duplicate-free sequence: after any add, discard
\* and pop, iteration yields the members once each in the order of first
\* insertion (adding a present element changes nothing), reversed iteration
\* the reverse, len the count; pop returns and removes the last member (the
\* first when last = False) and raises KeyError on an empty set, which stays
\* empty.
C21_OrderedSetRefinesSequence == []Coherent /\ [][StepOnSequence]_vars

C21_Witness ==
    /\ pc = "ready" /\ call.op = "pop" /\ call.arg = FALSE
    /\ ~Raised(outcome)
    /\ Len(Members) = 2
    /\ outcome.res.v > Members[1].v


\* The i-th predicate of the call is reached, does not raise, and its result
\* decides under the rule of the call.
DecidedAt(i) ==
    /\ Reached(i)
    /\ ~Raised(PerField(i))
    /\ (call.how = "any" /\ PerField(i).res) \/ (call.how = "all" /\ ~PerField(i).res)

\* The call of the state with its first i predicates only
UpTo(i) == [call EXCEPT !.preds = SubSeq(@, 1, i)]

\* C22: the field predicates are evaluated in the order given and the
\* evaluation stops at the first decisive result (true under how = any,
\* false under how = all): the call returns what it returns without the
\* later predicates, whose errors and missing fields are not raised.
C22_ShortCircuit ==
    FilterDone =>
        \A i \in 1..Len(call.preds) :
            DecidedAt(i) =>
                /\ outcome = Wrap(MappingFilter(node, UpTo(i)), node)
                /\ call.how = "any" => Matched
                /\ (\E j \in (i + 1)..Len(call.preds) : Raised(PerField(j))) =>
                        ~Raised(outcome)

C22_Witness ==
    /\ FilterDone /\ call.how = "any" /\ Len(call.preds) = 2
    /\ DecidedAt(1)
    /\ Raised(PerField(2))
    /\ Matched


\* The call of the state is a navigation step that returned a node.
Stepped(ops) == pc = "done" /\ call.op \in ops /\ ReturnedNode

\* r.get() for the result r of a __getitem__
Unwrapped(r) == IF Raised(r) THEN r ELSE Get(r.res)

\* What N[k, True] extracts from the i-th child when the child is wrapped
\* with the options `opts`.
ExtractedWith(opts, i) ==
    Unwrapped(NodeGetItem(MakeNode(node.obj.v[i], opts, NoNode), Unflagged(call.args)))

\* The call of the state is a propagated extraction that returned.
PropagateReturned ==
    /\ Stepped({"getitem"})
    /\ node.obj.t = "list" /\ Len(node.obj.v) > 0
    /\ Propagate(call.args) = "true"

\* C23: the node returned by an extract, filter or flatten step carries the
\* configuration of the node it was called on (hence, after any sequence of
\* steps, that of the root), and the extraction inside a propagate
\* broadcast is done with that configuration.
C23_ConfigurationInherited ==
    /\ Stepped({"getitem", "filter", "flatten"}) => outcome.res.opts = node.opts
    /\ PropagateReturned =>
            \A i \in 1..Len(node.obj.v) :
                Ret(outcome.res.obj.v[i]) = ExtractedWith(node.opts, i)

\* C23, the part that holds: an extract or a filter step returns a node with
\* the configuration of the node it was called on.
C23_IndexAndFilterKeepConfiguration ==
    Stepped({"getitem", "filter"}) => outcome.res.opts = node.opts

\* C23, what the code does instead in a propagate broadcast: the children
\* are wrapped with the options of the class.
C23_PropagateWithClassOptions ==
    PropagateReturned =>
        \A i \in 1..Len(node.obj.v) :
            Ret(outcome.res.obj.v[i]) = ExtractedWith(ClassOpts, i)


\* The step of the state is not a filter without predicates, which returns
\* the node itself.
Navigated(ops) ==
    Stepped(ops) /\ (call.op = "filter" => FilterGuard(call) = "filter")

\* C24: every node produced by a navigation step (an index, a filter with at
\* least one predicate, a flatten) has a producing node: its parent query
\* succeeds, and the parent query fails on directly constructed roots only.
C24_ProducedNodesHaveParent ==
    Navigated({"getitem", "filter", "flatten"}) => ~Raised(Parent(outcome.res))

\* C24, the part that holds: the node produced by an index or by a filter
\* with at least one predicate has a parent, the node it was called on
\* unless that node tracks a parent for each child.
C24_IndexedAndFilteredHaveParent ==
    Navigated({"getitem", "filter"}) =>
        /\ ~Raised(Parent(outcome.res))
        /\ node.child_parents = <<>> => Parent(outcome.res) = Ret(node)

\* C24, what the code does in flatten: the node produced has the parent of
\* the node flatten was called on, none when that node is a root.
C24_FlattenedHasParentOfNode ==
    Navigated({"flatten"}) => outcome.res.parent = node.parent


\* The call of the state is N[keys] on a non-empty list, keys being a tuple.
TupleIndexed ==
    /\ pc = "done" /\ call.op = "getitem"
    /\ Kind = "iterable" /\ node.obj.t = "list" /\ Len(node.obj.v) > 0
    /\ call.args.t = "tuple"

LastKey == call.args.v[Len(call.args.v)]

\* The broadcast of all the keys of the call to the children of the node
BroadcastOfAll ==
    LET r == GetChildItems(call.args, node.obj.v) IN
    IF Raised(r) THEN r ELSE Ret(Broadcasted(node, PyList(r.res)))

\* The same result, or a failure on both sides (with several workers the
\* failure raised is that of any failing chunk).
SameOutcome(a, b) == a = b \/ (Raised(a) /\ Raised(b))

\* C25: only an explicit trailing boolean is a propagate flag: a tuple of
\* keys whose last key is the integer 0 or 1 is broadcast with all its keys.
C25_IntegerKeyIsNoFlag ==
    (TupleIndexed /\ LastKey.t = "int") => SameOutcome(outcome, BroadcastOfAll)

\* C25, the part that holds: a tuple of keys whose last key is neither a
\* boolean nor 0 nor 1 is broadcast with all its keys.
C25_OtherKeysAreNoFlag ==
    (TupleIndexed /\ LastKey.t \notin {"int", "bool"}) =>
        SameOutcome(outcome, BroadcastOfAll)

\* C25, what the code does instead: a last key 1 is taken for True and a
\* last key 0 for False.
C25_IntegerKeyIsFlag ==
    (TupleIndexed /\ LastKey.t = "int" /\ LastKey.v \in {0, 1}) =>
        outcome = NodeGetItem(node,
                      [call.args EXCEPT !.v[Len(call.args.v)] = PyBool(LastKey.v = 1)])


\* The call of the state is a filter (with predicates) or a flatten of an
\* iterable node that wraps an empty sequence.
EmptyFilteredOrFlattened ==
    /\ pc = "done"
    /\ \/ call.op = "filter" /\ FilterGuard(call) = "filter"
       \/ call.op = "flatten"
    /\ GetCherryClass(node.obj) = "iterable"
    /\ Len(node.obj.v) = 0

\* C26: filtering or flattening an iterable node that wraps an empty sequence
\* returns a node wrapping an empty sequence and never raises, for every
\* valid worker count, n_jobs unset or 1 included.
C26_EmptyNeverRaises ==
    EmptyFilteredOrFlattened =>
        /\ ~Raised(outcome)
        /\ Len(outcome.res.obj.v) = 0

\* C26, the part that holds: with more than one worker the empty sequence
\* is filtered and flattened to a node wrapping an empty sequence.
C26_EmptyWithSeveralWorkers ==
    (EmptyFilteredOrFlattened /\ EffectiveNJobs(node.opts) > 1) =>
        /\ ~Raised(outcome)
        /\ outcome.res.obj = PyList(<<>>)

\* C26, what the code does with one worker: no chunk, no result to take
\* the first of.
C26_EmptyWithOneWorker ==
    (EmptyFilteredOrFlattened /\ EffectiveNJobs(node.opts) = 1) =>
        outcome = Raise("IndexError")


(***************************************************************************)
(* Filtering a sequence of heterogeneous children.                         *)
(***************************************************************************)
MaxHetero == 2   \* longest sequence of heterogeneous children

\* Children of every kind: mappings with and without the field, scalars,
\* strings and sequences that contain the field name or do not.
HeteroSample ==
    {PyDict(<<Item(Field(1), PyStr(<<"x">>))>>),
     PyDict(<<Item(Field(2), PyInt(1))>>),
     PyInt(5), None,
     PyStr(<<"s">>), Field(1),
     PyList(<<Field(1)>>), PyList(<<PyInt(1)>>)}

HeteroObjs ==
    {PyList(s) : s \in UNION {[1..n -> HeteroSample] : n \in 1..MaxHetero}}

HeteroOpts ==
    [on_missing : {"ignore", "raise"}, on_error : {"ignore", "raise"},
     on_leaf : {"raise"}, leaf_types : {DefaultLeafTypes},
     default : {None}, n_jobs : {None, PyInt(2)}]

\* Filters of one well-formed predicate on the first field.
HeteroFilterCalls ==
    {FilterCall(how, TRUE, TRUE, FALSE, <<Pred(Field(1), p)>>) :
        how \in PRED_RULES, p \in {PyStr(<<"x">>), Fn("isx")}}

ConstructHetero ==
    \E obj \in HeteroObjs, opts \in HeteroOpts : Construct(obj, opts)

\* filter() on an iterable node of heterogeneous children
HeteroFilterCall ==
    /\ pc = "ready"
    /\ GetCherryClass(node.obj) = "iterable"
    /\ \E c \in HeteroFilterCalls : Dispatch(c)

NextHetero ==
    \/ ConstructHetero
    \/ HeteroFilterCall
    \/ Worker
    \/ Reraise
    \/ Collect

SpecHetero == Init /\ [][NextHetero]_vars

\* The call of the state is a filter of a non-empty sequence by well-formed
\* predicates (no failing function, no malformed pattern) under
\* on_missing = ignore and on_error = ignore.
IgnoringFiltered ==
    /\ pc = "done"
    /\ call.op = "filter"
    /\ FilterGuard(call) = "filter"
    /\ GetCherryClass(node.obj) = "iterable"
    /\ Len(node.obj.v) > 0
    /\ node.opts.on_missing = "ignore"
    /\ node.opts.on_error = "ignore"
    /\ \A i \in 1..Len(call.preds) :
          /\ call.preds[i].pred.t = "fn" => call.preds[i].pred.v = "isx"
          /\ call.preds[i].pred.t = "str" => ~(call.regex /\ Malformed(call.preds[i].pred.v))

\* The field attr can be looked up on the child and fetched from it.
Fetchable(child, attr) == child.t = "dict" /\ DictHas(child, attr)

\* The child passes the predicates; a field that cannot be looked up or
\* fetched does not match.
Passes(child) ==
    LET Res(i) == /\ Fetchable(child, call.preds[i].attr)
                  /\ Handled(Compare(call.preds[i].pred,
                                     DictGet(child, call.preds[i].attr), call),
                             node.opts).res
    IN  IF call.how = "any" THEN \E i \in 1..Len(call.preds) : Res(i)
        ELSE \A i \in 1..Len(call.preds) : Res(i)

\* The children that pass, in their order.
Passing == PyList(SelectSeq(node.obj.v, Passes))

\* `attr in child` or `child[attr]` fails for some predicate of the call.
Unsearchable(child) ==
    \E i \in 1..Len(call.preds) :
        \/ child.t \notin {"dict", "str", "list"}
        \/ /\ child.t \in {"str", "list"}
           /\ Contains(child, call.preds[i].attr).res

\* C27: with on_missing = ignore and on_error = ignore, filtering children of
\* mixed kinds by a well-formed predicate never raises: a child on which the
\* field cannot be looked up or fetched does not match and is excluded.
C27_HeterogeneousNeverRaises ==
    IgnoringFiltered =>
        /\ ~Raised(outcome)
        /\ outcome.res.obj = Passing

\* C27, the part that holds: when every child is a mapping, or a string or
\* a sequence that does not contain the field name, the filter returns the
\* children that pass.
C27_SearchableChildrenNeverRaise ==
    (IgnoringFiltered /\ \A i \in 1..Len(node.obj.v) : ~Unsearchable(node.obj.v[i])) =>
        /\ ~Raised(outcome)
        /\ outcome.res.obj = Passing

\* C27, what the code does otherwise: the lookup or the fetch on a scalar
\* child, or on a string or sequence child containing the field name, is
\* outside the try block and its TypeError leaves the filter.
C27_UnsearchableChildRaises ==
    (IgnoringFiltered /\ Len(call.preds) = 1
        /\ \E i \in 1..Len(node.obj.v) : Unsearchable(node.obj.v[i])) =>
        outcome = Raise("TypeError")

====
